---- MODULE Spec2Model ----
(***************************************************************************)
(* Model of the Arke preprocessing orchestrator for one batch id.          *)
(*                                                                         *)
(* The phase (src/src/phases/tiff-conversion.ts), the task id utilities    *)
(* (src/src/utils/task-id.ts) and the worker entry points                  *)
(* (src/unnamed/part_001) are translated from their source.  The durable   *)
(* object of the batch (src/batch-do.ts: startBatch, alarm, handleCallback,*)
(* status, reset) is not part of the available sources; its operations are *)
(* written from sections 3, 4.4 and 5 of the specification.                *)
(***************************************************************************)
EXTENDS Integers, Sequences, FiniteSets, TLC

(***************************************************************************)
(* Bounds of the model and the configuration it runs with.                 *)
(***************************************************************************)
\* config.BATCH_SIZE_TIFF_CONVERSION (a deployment variable), scaled down
BATCH_SIZE_TIFF_CONVERSION == 2
\* config.MAX_RETRY_ATTEMPTS (a deployment variable), scaled down
MAX_RETRY_ATTEMPTS == 2
\* callbacks delivered to the batch over one behaviour (workers may repeat them)
MaxCallbacks == 3

VARIABLES
    state,         \* the BatchState of the batch id, or NoState before the first message
    alarm,         \* TRUE while a wake-up of the durable object is scheduled
    pc,            \* "idle", or "spawning" while executeBatch awaits its fan-out
    pendingTasks,  \* executeBatch's pendingTasks: positions in current_phase_tasks
    spawnResults,  \* executeBatch's spawnResults, one per element of pendingTasks
    callbacks,     \* number of callbacks delivered so far
    delivery,      \* the MessageBatch queue() is working through, and its position in it
    last           \* the operation that produced this state (history)

vars == <<state, alarm, pc, pendingTasks, spawnResults, callbacks, delivery, last>>

NoState == [batch_id |-> "none", current_phase_tasks |-> <<>>]
\* no MessageBatch is being worked through
NoDelivery == [messages |-> <<>>, next |-> 1]
BatchId == "B1"

(***************************************************************************)
(* Strings are sequences of one-character strings.                         *)
(***************************************************************************)
CharCode ==
    [c \in {"a", "b", "c", "d", "f", "g", "i", "j", "p", "s", "t",
            "A", "B", "F", "I", "T", ".", "/"} |->
        CASE c = "a" -> 97  [] c = "b" -> 98  [] c = "c" -> 99  [] c = "d" -> 100
          [] c = "f" -> 102 [] c = "g" -> 103 [] c = "i" -> 105 [] c = "j" -> 106
          [] c = "p" -> 112 [] c = "s" -> 115 [] c = "t" -> 116
          [] c = "A" -> 65  [] c = "B" -> 66  [] c = "F" -> 70  [] c = "I" -> 73
          [] c = "T" -> 84  [] c = "." -> 46  [] c = "/" -> 47]

\* the case folding of the regular expression's i flag
Lower(c) ==
    CASE c = "A" -> "a" [] c = "B" -> "b" [] c = "F" -> "f"
      [] c = "I" -> "i" [] c = "T" -> "t" [] OTHER -> c

EndsWith(s, suffix) ==
    /\ Len(s) >= Len(suffix)
    /\ \A k \in 1..Len(suffix) :
          Lower(s[Len(s) - Len(suffix) + k]) = suffix[k]

\* a mutation of isTiff: the i flag is missing
isTiffCaseSensitive(fileName) ==
    \/ /\ Len(fileName) >= 4
       /\ SubSeq(fileName, Len(fileName) - 3, Len(fileName)) = <<".", "t", "i", "f">>
    \/ /\ Len(fileName) >= 5
       /\ SubSeq(fileName, Len(fileName) - 4, Len(fileName)) = <<".", "t", "i", "f", "f">>

\* /\.tiff?$/i.test(fileName)
isTiff(fileName) ==
    \/ EndsWith(fileName, <<".", "t", "i", "f">>)
    \/ EndsWith(fileName, <<".", "t", "i", "f", "f">>)

(***************************************************************************)
(* 32-bit integer arithmetic of simpleHash.  Values are kept as signed     *)
(* 32-bit integers; every intermediate result stays inside that range.     *)
(***************************************************************************)
MaxInt32 == 2147483647
MinInt32 == (-2147483647) - 1

\* ToInt32(a + b) for a, b signed 32-bit
AddWrap(a, b) ==
    IF a >= 0 /\ b >= 0
    THEN IF a > MaxInt32 - b
         THEN ((a - MaxInt32) - 1) + ((b - MaxInt32) - 1)
         ELSE a + b
    ELSE IF a < 0 /\ b < 0
         THEN IF a < MinInt32 - b
              THEN ((a + MaxInt32) + 1) + ((b + MaxInt32) + 1)
              ELSE a + b
         ELSE a + b

\* ToInt32(-a) for a signed 32-bit
NegWrap(a) == IF a = MinInt32 THEN MinInt32 ELSE 0 - a

\* hash << 5 on a signed 32-bit value
ShiftLeft5(h) ==
    LET q == h \div 67108864
        r == h % 67108864
    IN  IF q % 2 = 0 THEN r * 32 ELSE (r * 32 - MaxInt32) - 1

RECURSIVE hashFrom(_, _, _)
\* the loop of simpleHash from position i with accumulator hash
hashFrom(str, i, hash) ==
    IF i > Len(str) THEN hash
    ELSE hashFrom(str, i + 1,
                  AddWrap(AddWrap(ShiftLeft5(hash), NegWrap(hash)), CharCode[str[i]]))

RECURSIVE Base36(_)
\* Number.prototype.toString(36) of a non-negative integer, as its digits
Base36(n) == IF n < 36 THEN <<n>> ELSE Append(Base36(n \div 36), n % 36)

\* Math.abs(hash).toString(36); Math.abs(-2^31) is 2^31, outside the 32-bit range
simpleHash(str) ==
    LET hash == hashFrom(str, 1, 0)
    IN  IF hash = MinInt32 THEN <<35, 18, 20, 0, 35, 20>>
        ELSE Base36(IF hash < 0 THEN 0 - hash ELSE hash)

\* `${batchId}_tiff_${hash}`
generateTaskId(batchId, r2Key) == <<batchId, "_tiff_", simpleHash(r2Key)>>

(***************************************************************************)
(* Queue messages.  A message names its batch and, per directory, the      *)
(* files staged for it.                                                    *)
(***************************************************************************)
File(name) == [r2_key |-> <<"s", "/">> \o name, file_name |-> name]

NameATiff == <<"a", ".", "t", "i", "f", "f">>
NameBJpg  == <<"b", ".", "j", "p", "g">>
NameCTIF  == <<"c", ".", "T", "I", "F">>
NameDPdf  == <<"d", ".", "p", "d", "f">>
NameDTif  == <<"d", ".", "t", "i", "f">>

\* no qualifying file
MsgNoTiff == [batch_id |-> BatchId, directories |-> << <<File(NameBJpg)>> >>]
\* two qualifying files among four
MsgMixed  == [batch_id |-> BatchId,
              directories |-> << <<File(NameATiff), File(NameBJpg)>>,
                                 <<File(NameCTIF), File(NameDPdf)>> >>]
\* three qualifying files, more than one wake can spawn
MsgThree  == [batch_id |-> BatchId,
              directories |-> << <<File(NameATiff)>>,
                                 <<File(NameCTIF), File(NameDTif)>> >>]

Messages == {MsgNoTiff, MsgMixed, MsgThree}

\* handles the machine API may return
MachineIds == {"m1"}

\* the callback payloads a worker sends (TiffCallbackResult)
CallbackResults ==
    { [status |-> "success", output_r2_key |-> "out", error |-> "none"],
      [status |-> "error",   output_r2_key |-> "none", error |-> "err"] }

(***************************************************************************)
(* TiffConversionPhase                                                     *)
(***************************************************************************)
RECURSIVE FlattenFiles(_)
\* the files of a message in the order the nested loops of discover visit them
FlattenFiles(directories) ==
    IF directories = <<>> THEN <<>>
    ELSE Head(directories) \o FlattenFiles(Tail(directories))

NewTask(batchId, file) ==
    [ task_id         |-> generateTaskId(batchId, file.r2_key),
      status          |-> "pending",
      input_r2_key    |-> file.r2_key,
      input_file_name |-> file.file_name,
      retry_count     |-> 0,
      started_at      |-> "none",
      fly_machine_id  |-> "none",
      completed_at    |-> "none",
      output_r2_key   |-> "none",
      error           |-> "none" ]

RECURSIVE discoverFiles(_, _)
discoverFiles(batchId, files) ==
    IF files = <<>> THEN <<>>
    ELSE IF isTiff(Head(files).file_name)
         THEN <<NewTask(batchId, Head(files))>> \o discoverFiles(batchId, Tail(files))
         ELSE discoverFiles(batchId, Tail(files))

\* TiffConversionPhase.discover
discover(queueMessage) ==
    discoverFiles(queueMessage.batch_id, FlattenFiles(queueMessage.directories))

Min(a, b) == IF a <= b THEN a ELSE b

\* Object.values(state.current_phase_tasks).filter(t => t.status === 'pending'),
\* as positions in current_phase_tasks
PendingPositions(s) ==
    SelectSeq([i \in 1..Len(s.current_phase_tasks) |-> i],
              LAMBDA i : s.current_phase_tasks[i].status = "pending")

\* a mutation of selectPending: the filter also lets processing tasks through
selectUnfinished(s) ==
    LET unfinished ==
            SelectSeq([i \in 1..Len(s.current_phase_tasks) |-> i],
                      LAMBDA i : s.current_phase_tasks[i].status
                                     \in {"pending", "processing"})
    IN  SubSeq(unfinished, 1, Min(BATCH_SIZE_TIFF_CONVERSION, Len(unfinished)))

\* a mutation of selectPending: the slice is missing
selectPendingNoSlice(s) == PendingPositions(s)

\* executeBatch, lines 59-61: the pending tasks, up to the batch size
selectPending(s) ==
    SubSeq(PendingPositions(s), 1,
           Min(BATCH_SIZE_TIFF_CONVERSION, Len(PendingPositions(s))))

\* a mutation of allDone: a failed task does not count as done
allDoneCompletedOnly(s) ==
    \A i \in 1..Len(s.current_phase_tasks) :
        s.current_phase_tasks[i].status = "completed"

\* executeBatch, lines 65-66
allDone(s) ==
    \A i \in 1..Len(s.current_phase_tasks) :
        s.current_phase_tasks[i].status \in {"completed", "failed"}

\* spawnFlyMachine for the task at position i, the machine API answering with
\* handle id (line 155); a failed request throws before any write (lines 149-152)
spawnFlyMachine(s, i, id) ==
    [s EXCEPT !.current_phase_tasks[i].fly_machine_id = id]

\* a mutation of recordSpawnResults: a rejected spawn is marked processing too
recordSpawnResultsAll(s, pend, results) ==
    [s EXCEPT !.current_phase_tasks =
        [i \in 1..Len(s.current_phase_tasks) |->
            IF \E k \in 1..Len(pend) : pend[k] = i
            THEN [s.current_phase_tasks[i] EXCEPT
                     !.status = "processing", !.started_at = "set"]
            ELSE s.current_phase_tasks[i]]]

\* executeBatch, lines 86-98: mark the successfully spawned tasks as processing
recordSpawnResults(s, pend, results) ==
    [s EXCEPT !.current_phase_tasks =
        [i \in 1..Len(s.current_phase_tasks) |->
            IF \E k \in 1..Len(pend) : pend[k] = i /\ results[k].status = "fulfilled"
            THEN [s.current_phase_tasks[i] EXCEPT
                     !.status = "processing", !.started_at = "set"]
            ELSE s.current_phase_tasks[i]]]

\* a mutation of handleCallback: a task that was counted in the other counter
\* is taken out of it
handleCallbackRecount(s, i, result) ==
    LET was == s.current_phase_tasks[i].status
    IN  IF result.status = "success"
        THEN [s EXCEPT !.current_phase_tasks[i].status = "completed",
                       !.current_phase_tasks[i].output_r2_key = result.output_r2_key,
                       !.current_phase_tasks[i].completed_at = "set",
                       !.tasks_completed = @ + 1,
                       !.tasks_failed = IF was = "failed" THEN @ - 1 ELSE @]
        ELSE [s EXCEPT !.current_phase_tasks[i].status = "failed",
                       !.current_phase_tasks[i].error = result.error,
                       !.tasks_failed = @ + 1,
                       !.tasks_completed = IF was = "completed" THEN @ - 1 ELSE @]

\* a mutation of handleCallback: the error branch forgets tasks_failed++
handleCallbackNoFailCount(s, i, result) ==
    IF result.status = "success"
    THEN [s EXCEPT !.current_phase_tasks[i].status = "completed",
                   !.current_phase_tasks[i].output_r2_key = result.output_r2_key,
                   !.current_phase_tasks[i].completed_at = "set",
                   !.tasks_completed = @ + 1]
    ELSE [s EXCEPT !.current_phase_tasks[i].status = "failed",
                   !.current_phase_tasks[i].error = result.error]

\* TiffConversionPhase.handleCallback on the task at position i
handleCallback(s, i, result) ==
    IF result.status = "success"
    THEN [s EXCEPT !.current_phase_tasks[i].status = "completed",
                   !.current_phase_tasks[i].output_r2_key = result.output_r2_key,
                   !.current_phase_tasks[i].completed_at = "set",
                   !.tasks_completed = @ + 1]
    ELSE [s EXCEPT !.current_phase_tasks[i].status = "failed",
                   !.current_phase_tasks[i].error = result.error,
                   !.tasks_failed = @ + 1]

\* a mutation of getNextPhase: a further phase follows
getNextPhaseOcr == "OCR"

\* TiffConversionPhase.getNextPhase: null, the batch goes to DONE
getNextPhase == "null"

(***************************************************************************)
(* The durable object of the batch (specification, sections 3, 4.4, 5).    *)
(***************************************************************************)
Terminal == {"DONE", "ERROR"}

PositionOf(tasks, taskId) ==
    IF \E i \in 1..Len(tasks) : tasks[i].task_id = taskId
    THEN CHOOSE i \in 1..Len(tasks) : tasks[i].task_id = taskId
    ELSE 0

RECURSIVE installTasks(_, _)
\* current_phase_tasks is a mapping keyed by task id: a task whose id is
\* already present replaces that entry, any other is added after the rest
installTasks(installed, tasks) ==
    IF tasks = <<>> THEN installed
    ELSE LET t == Head(tasks)
             p == PositionOf(installed, t.task_id)
         IN  installTasks(IF p = 0 THEN Append(installed, t)
                          ELSE [installed EXCEPT ![p] = t],
                          Tail(tasks))

\* the phase is over: its successor is null, so the batch is DONE
completePhase(s) ==
    IF getNextPhase = "null"
    THEN [s EXCEPT !.status = "DONE", !.completed_at = "set"]
    ELSE s

\* start_batch, steps 1-3, for a batch id that has no state yet
newBatchState(queueMessage) ==
    LET tasks == discover(queueMessage)
        s == [ batch_id            |-> queueMessage.batch_id,
               status              |-> "TIFF_CONVERSION",
               queue_message       |-> queueMessage,
               current_phase       |-> "TIFF_CONVERSION",
               current_phase_tasks |-> installTasks(<<>>, tasks),
               tasks_total         |-> Len(tasks),
               tasks_completed     |-> 0,
               tasks_failed        |-> 0,
               started_at          |-> "set",
               completed_at        |-> "none",
               error               |-> "none",
               retry_count         |-> 0 ]
    IN  IF s.tasks_total = 0 THEN completePhase(s) ELSE s

\* a mutation of settleMessage: the message is acknowledged after the catch too
settleMessageAckAlways(message, outcome) ==
    IF outcome = "returned"
    THEN [message EXCEPT !.acks = @ + 1, !.outcome = outcome]
    ELSE [message EXCEPT !.retries = @ + 1, !.acks = @ + 1, !.outcome = outcome]

\* a mutation of startBatch: every delivery initialises the batch anew
startBatchAlways(s, queueMessage) == newBatchState(queueMessage)

\* start_batch(batch_id, queue_message): a no-op when the batch id already
\* has a state
startBatch(s, queueMessage) ==
    IF s = NoState THEN newBatchState(queueMessage) ELSE s

\* a mutation of afterMoreWork: the exhausted budget is not written to error
afterMoreWorkNoError(s, progressed) ==
    IF progressed
    THEN [s EXCEPT !.retry_count = 0]
    ELSE IF s.retry_count + 1 > MAX_RETRY_ATTEMPTS
         THEN [s EXCEPT !.retry_count = @ + 1, !.status = "ERROR"]
         ELSE [s EXCEPT !.retry_count = @ + 1]

\* a mutation of afterMoreWork: wakes without progress are not counted
afterMoreWorkNoCount(s, progressed) == [s EXCEPT !.retry_count = 0]

\* a mutation of afterMoreWork: a wake that made progress leaves the count
afterMoreWorkNoReset(s, progressed) ==
    IF progressed
    THEN s
    ELSE IF s.retry_count + 1 > MAX_RETRY_ATTEMPTS
         THEN [s EXCEPT !.retry_count = @ + 1, !.status = "ERROR",
                        !.error = "retry budget exhausted"]
         ELSE [s EXCEPT !.retry_count = @ + 1]

\* alarm loop, step 4: the wake ended with more work; progressed tells whether
\* a spawn succeeded in it
afterMoreWork(s, progressed) ==
    IF progressed
    THEN [s EXCEPT !.retry_count = 0]
    ELSE IF s.retry_count + 1 > MAX_RETRY_ATTEMPTS
         THEN [s EXCEPT !.retry_count = @ + 1, !.status = "ERROR",
                        !.error = "retry budget exhausted"]
         ELSE [s EXCEPT !.retry_count = @ + 1]

\* "every task is in a terminal state"
everyTaskTerminal(s) ==
    \A i \in 1..Len(s.current_phase_tasks) :
        s.current_phase_tasks[i].status \in {"completed", "failed"}

\* handle_callback on a located task: reconcile through the phase, then
\* re-evaluate completion
reconcile(s, i, result) ==
    LET r == handleCallback(s, i, result)
    IN  IF everyTaskTerminal(r) THEN completePhase(r) ELSE r

\* a mutation of deliverCallback: a batch in a terminal status still reconciles
deliverCallbackAlways(s, taskId, result) ==
    LET p == PositionOf(s.current_phase_tasks, taskId)
    IN  IF p = 0 THEN s ELSE reconcile(s, p, result)

\* handle_callback(task_id, payload): dropped when the batch is terminal or
\* the task id is not in current_phase_tasks
deliverCallback(s, taskId, result) ==
    LET p == PositionOf(s.current_phase_tasks, taskId)
    IN  IF s.status \in Terminal \/ p = 0 THEN s ELSE reconcile(s, p, result)

\* a mutation of adminReset: the tasks still with a worker are marked failed
adminResetFailsTasks(s) ==
    [s EXCEPT !.status = "ERROR", !.error = "reset by admin",
              !.current_phase_tasks =
                  [i \in 1..Len(@) |->
                      IF @[i].status = "processing"
                      THEN [@[i] EXCEPT !.status = "failed"] ELSE @[i]]]

\* admin_reset
adminReset(s) == [s EXCEPT !.status = "ERROR", !.error = "reset by admin"]

\* the last operation handled: its name, for a callback the task and the
\* reported status, and the HTTP status answered (0: not an HTTP request)
Op(name) == [op |-> name, task |-> 0, result |-> "none", http |-> 0]
Answered(name, code) == [Op(name) EXCEPT !.http = code]

(***************************************************************************)
(* Initial state: no queue message has been delivered for the batch id.    *)
(***************************************************************************)
Init ==
    /\ state = NoState
    /\ alarm = FALSE
    /\ pc = "idle"
    /\ pendingTasks = <<>>
    /\ spawnResults = <<>>
    /\ callbacks = 0
    /\ delivery = NoDelivery
    /\ last = Op("init")

(***************************************************************************)
(* queue(): a message of the batch is delivered; the consumer calls        *)
(* startBatch on the durable object of its batch id and acknowledges.      *)
(***************************************************************************)
StartBatch(m) ==
    /\ UNCHANGED delivery
    /\ state' = startBatch(state, m)
    /\ IF state = NoState
       THEN /\ alarm' = TRUE
            /\ last' = Op("start")
       ELSE /\ UNCHANGED alarm
            /\ last' = Op("start_noop")
    /\ UNCHANGED <<pc, pendingTasks, spawnResults, callbacks>>

(***************************************************************************)
(* The alarm fires.  A wake that finds no pending task runs to its end in  *)
(* one step; a wake that selects tasks issues their spawn requests and     *)
(* awaits them (pc = "spawning").  While the fan-out is awaited the        *)
(* durable object accepts other events, so callbacks, status reads and     *)
(* resets may be handled before the results are recorded.  handle_callback *)
(* completes the phase itself when the last task is reported, so a wake    *)
(* never finds a running batch whose tasks are all completed or failed.    *)
(***************************************************************************)
AlarmFire ==
    /\ UNCHANGED delivery
    /\ state # NoState
    /\ alarm
    /\ pc = "idle"
    /\ UNCHANGED callbacks
    /\ IF state.status \in Terminal
       THEN /\ alarm' = FALSE
            /\ last' = Op("alarm_exit")
            /\ UNCHANGED <<state, pc, pendingTasks, spawnResults>>
       ELSE LET pend == selectPending(state)
            IN  IF pend = <<>>
                THEN /\ UNCHANGED <<pc>>
                     /\ pendingTasks' = <<>>
                     /\ spawnResults' = <<>>
                     /\ IF allDone(state)
                        THEN /\ state' = completePhase(state)
                             /\ alarm' = FALSE
                             /\ last' = Op("alarm_done")
                        ELSE /\ state' = afterMoreWork(state, FALSE)
                             /\ alarm' = (state'.status \notin Terminal)
                             /\ last' = Op("alarm_wait")
                ELSE /\ pc' = "spawning"
                     /\ pendingTasks' = pend
                     /\ spawnResults' =
                            [k \in 1..Len(pend) |-> [status |-> "inflight", id |-> "none"]]
                     /\ alarm' = FALSE
                     /\ last' = Op("alarm_spawn")
                     /\ UNCHANGED state

\* the machine API accepts the k-th spawn request of the wake and returns handle id
SpawnFulfilled(k, id) ==
    /\ UNCHANGED delivery
    /\ pc = "spawning"
    /\ k \in 1..Len(pendingTasks)
    /\ spawnResults[k].status = "inflight"
    /\ state' = spawnFlyMachine(state, pendingTasks[k], id)
    /\ spawnResults' = [spawnResults EXCEPT ![k] = [status |-> "fulfilled", id |-> id]]
    /\ last' = Op("spawn_fulfilled")
    /\ UNCHANGED <<alarm, pc, pendingTasks, callbacks>>

\* the k-th spawn request of the wake fails: spawnFlyMachine throws
SpawnRejected(k) ==
    /\ UNCHANGED delivery
    /\ pc = "spawning"
    /\ k \in 1..Len(pendingTasks)
    /\ spawnResults[k].status = "inflight"
    /\ spawnResults' = [spawnResults EXCEPT ![k] = [status |-> "rejected", id |-> "none"]]
    /\ last' = Op("spawn_rejected")
    /\ UNCHANGED <<state, alarm, pc, pendingTasks, callbacks>>

\* every spawn request has settled: executeBatch records the results and
\* returns true, and the alarm loop finishes the wake
ExecRecord ==
    /\ UNCHANGED delivery
    /\ pc = "spawning"
    /\ \A k \in 1..Len(spawnResults) : spawnResults[k].status # "inflight"
    /\ LET recorded == recordSpawnResults(state, pendingTasks, spawnResults)
           progressed == \E k \in 1..Len(spawnResults) :
                             spawnResults[k].status = "fulfilled"
       IN  IF recorded.status \in Terminal
           THEN /\ state' = recorded
                /\ UNCHANGED alarm
           ELSE /\ state' = afterMoreWork(recorded, progressed)
                /\ alarm' = (state'.status \notin Terminal)
    /\ pc' = "idle"
    /\ last' = Op("record")
    /\ UNCHANGED <<pendingTasks, spawnResults, callbacks>>

(***************************************************************************)
(* fetch(): POST /callback/{batch_id}/{task_id} from the worker of the     *)
(* task at position i, with a well-formed body.                            *)
(***************************************************************************)
Callback(i, result) ==
    /\ UNCHANGED delivery
    /\ state # NoState
    /\ callbacks < MaxCallbacks
    /\ i \in 1..Len(state.current_phase_tasks)
    /\ state.current_phase_tasks[i].fly_machine_id # "none"
    /\ callbacks' = callbacks + 1
    /\ LET taskId == state.current_phase_tasks[i].task_id
           p == PositionOf(state.current_phase_tasks, taskId)
       IN  /\ state' = deliverCallback(state, taskId, result)
           /\ IF state.status \in Terminal \/ p = 0
              THEN /\ UNCHANGED alarm
                   /\ last' = Answered("callback_dropped", 200)
              ELSE /\ alarm' = IF state'.status \in Terminal THEN alarm ELSE TRUE
                   /\ last' = [op |-> "callback", task |-> p,
                               result |-> result.status, http |-> 200]
    /\ UNCHANGED <<pc, pendingTasks, spawnResults>>

\* fetch(): POST /admin/reset/{batch_id}
AdminReset ==
    /\ UNCHANGED delivery
    /\ IF state = NoState
       THEN /\ UNCHANGED <<state, alarm>>
            /\ last' = Answered("reset_unknown", 200)
       ELSE /\ state' = adminReset(state)
            /\ alarm' = FALSE
            /\ last' = Answered("reset", 200)
    /\ UNCHANGED <<pc, pendingTasks, spawnResults, callbacks>>

\* fetch(): GET /status/{batch_id}
GetStatus ==
    /\ UNCHANGED delivery
    /\ last' = Answered("status", IF state = NoState THEN 404 ELSE 200)
    /\ UNCHANGED <<state, alarm, pc, pendingTasks, spawnResults, callbacks>>

Next ==
    \/ \E m \in Messages : StartBatch(m)
    \/ AlarmFire
    \/ \E k \in 1..Len(pendingTasks), id \in MachineIds : SpawnFulfilled(k, id)
    \/ \E k \in 1..Len(pendingTasks) : SpawnRejected(k)
    \/ ExecRecord
    \/ \E i \in 1..Len(state.current_phase_tasks), result \in CallbackResults :
          Callback(i, result)
    \/ AdminReset
    \/ GetStatus

Spec == Init /\ [][Next]_vars

(***************************************************************************)
(* Properties.                                                             *)
(***************************************************************************)
TaskIndexes(s) == 1..Len(s.current_phase_tasks)
TaskTerminal(t) == t.status \in {"completed", "failed"}
HasWorker(s, i) == s.current_phase_tasks[i].fly_machine_id # "none"

\* C1: callback idempotency.  For the batch state reached and every task a
\* worker may report on, delivering the same payload twice leaves the same
\* BatchState as delivering it once, and a payload for a task that is already
\* completed or failed changes no counter.
C1_CallbackIdempotent ==
    state # NoState =>
        \A i \in TaskIndexes(state), result \in CallbackResults :
            HasWorker(state, i) =>
                LET taskId == state.current_phase_tasks[i].task_id
                    once == deliverCallback(state, taskId, result)
                    twice == deliverCallback(once, taskId, result)
                IN  /\ twice = once
                    /\ TaskTerminal(state.current_phase_tasks[i]) =>
                          /\ once.tasks_completed = state.tasks_completed
                          /\ once.tasks_failed = state.tasks_failed

\* C2: in every reachable state tasks_completed + tasks_failed <= tasks_total.
C2_CountersWithinTotal ==
    state # NoState =>
        state.tasks_completed + state.tasks_failed <= state.tasks_total

\* C3: when the spawn results are recorded, a task that a callback has already
\* moved to completed or failed is not overwritten to processing.
C3_RecordKeepsReportedTask ==
    [][last'.op = "record" =>
          \A i \in TaskIndexes(state) :
              TaskTerminal(state.current_phase_tasks[i]) =>
                  state'.current_phase_tasks[i].status # "processing"]_vars

\* C4: once a task is completed or failed it never again becomes pending or
\* processing.
C4_TerminalTaskStaysTerminal ==
    [][\A i \in TaskIndexes(state) :
          TaskTerminal(state.current_phase_tasks[i]) =>
              TaskTerminal(state'.current_phase_tasks[i])]_vars

\* C5: an error callback for a processing task whose retry_count is below the
\* retry limit increments the task's retry_count, sets it back to pending and
\* leaves tasks_failed unchanged; a task at the limit becomes failed and
\* tasks_failed grows by one.
C5_ErrorCallbackRetries ==
    [][(last'.op = "callback" /\ last'.result = "error"
            /\ state.current_phase_tasks[last'.task].status = "processing") =>
          LET t == state.current_phase_tasks[last'.task]
              u == state'.current_phase_tasks[last'.task]
          IN  IF t.retry_count < MAX_RETRY_ATTEMPTS
              THEN /\ u.retry_count = t.retry_count + 1
                   /\ u.status = "pending"
                   /\ state'.tasks_failed = state.tasks_failed
              ELSE /\ u.status = "failed"
                   /\ state'.tasks_failed = state.tasks_failed + 1]_vars

\* C6: the spawn requests issued by one alarm wake number at most the
\* configured batch size.
C6_SpawnBound ==
    /\ Len(pendingTasks) <= BATCH_SIZE_TIFF_CONVERSION
    /\ Len(spawnResults) = Len(pendingTasks)

\* a wake that selected a full batch while a further task was pending
C6_Witness ==
    /\ pc = "spawning"
    /\ Len(spawnResults) = BATCH_SIZE_TIFF_CONVERSION
    /\ \E i \in TaskIndexes(state) :
          /\ state.current_phase_tasks[i].status = "pending"
          /\ \A k \in 1..Len(pendingTasks) : pendingTasks[k] # i

\* C7: a failed spawn request changes nothing, and when the results are
\* recorded a task whose request failed is still pending with its record
\* (retry_count, started_at, machine handle) untouched, a task whose request
\* succeeded is processing with started_at and the returned handle set, and
\* tasks_total, tasks_completed and tasks_failed are unchanged.
C7_SpawnOutcome ==
    [][/\ last'.op = "spawn_rejected" => state' = state
       /\ last'.op = "record" =>
            /\ state'.tasks_total = state.tasks_total
            /\ state'.tasks_completed = state.tasks_completed
            /\ state'.tasks_failed = state.tasks_failed
            /\ \A k \in 1..Len(pendingTasks) :
                  LET t == state.current_phase_tasks[pendingTasks[k]]
                      u == state'.current_phase_tasks[pendingTasks[k]]
                  IN  IF spawnResults[k].status = "rejected"
                      THEN /\ u = t
                           /\ u.status = "pending"
                           /\ u.fly_machine_id = "none"
                           /\ u.started_at = "none"
                      ELSE /\ u.status = "processing"
                           /\ u.started_at = "set"
                           /\ u.fly_machine_id = spawnResults[k].id]_vars

\* the results of a wake were recorded, one request failed and one succeeded
C7_Witness ==
    /\ last.op = "record"
    /\ \E k \in 1..Len(pendingTasks) :
          /\ spawnResults[k].status = "rejected"
          /\ state.current_phase_tasks[pendingTasks[k]].status = "pending"
    /\ \E k \in 1..Len(pendingTasks) :
          /\ spawnResults[k].status = "fulfilled"
          /\ state.current_phase_tasks[pendingTasks[k]].status = "processing"

\* C8: once the status is DONE or ERROR, no start_batch, alarm wake, callback,
\* status read, or admin reset of an ERROR batch changes it.
C8_TerminalStatusAbsorbs ==
    [][(state # NoState /\ state.status \in Terminal
            /\ ~(last'.op = "reset" /\ state.status = "DONE")) =>
          state'.status = state.status]_vars

\* a callback reached a batch whose status was already terminal
C8_Witness ==
    /\ state # NoState
    /\ state.status \in Terminal
    /\ last.op = "callback_dropped"

\* C9: whenever the status is DONE every task is completed or failed and
\* completed_at is set.
C9_DoneMeansAllTerminal ==
    (state # NoState /\ state.status = "DONE") =>
        /\ \A i \in TaskIndexes(state) : TaskTerminal(state.current_phase_tasks[i])
        /\ state.completed_at = "set"

\* C10: the status becomes ERROR only by admin reset or by exhaustion of the
\* batch retry budget; a callback that leaves every task completed or failed
\* makes the batch DONE, and a task that becomes failed is counted in
\* tasks_failed without the batch becoming ERROR.
C10_ErrorOnlyByResetOrBudget ==
    [][/\ (state # NoState /\ state.status # "ERROR" /\ state'.status = "ERROR") =>
            \/ last'.op = "reset" /\ state'.error = "reset by admin"
            \/ /\ last'.op \in {"alarm_wait", "record"}
               /\ state'.error = "retry budget exhausted"
               /\ state'.retry_count > MAX_RETRY_ATTEMPTS
       /\ last'.op = "callback" =>
            /\ state'.status # "ERROR"
            /\ (\A i \in TaskIndexes(state') :
                    TaskTerminal(state'.current_phase_tasks[i]))
                  => state'.status = "DONE"
            /\ (state'.current_phase_tasks[last'.task].status = "failed"
                  /\ last'.result = "error")
                  => state'.tasks_failed = state.tasks_failed + 1]_vars

\* the last task was reported failed and the batch is DONE with every task failed
C10_Witness ==
    /\ state # NoState
    /\ state.status = "DONE"
    /\ last.op = "callback"
    /\ last.result = "error"
    /\ state.tasks_total > 0
    /\ \A i \in TaskIndexes(state) : state.current_phase_tasks[i].status = "failed"

\* C11: the batch retry_count counts consecutive wakes that ended with more
\* work and no progress.  A wake that ends on a batch that is still running
\* resets it to 0 when one of its spawn requests succeeded and raises it by
\* one otherwise; the wake makes the batch ERROR with error "retry budget
\* exhausted" exactly when the count then exceeds MAX_RETRY_ATTEMPTS.
C11_RetryBudget ==
    [][(last'.op \in {"alarm_wait", "record"} /\ state.status \notin Terminal) =>
          LET spawned == /\ last'.op = "record"
                         /\ \E k \in 1..Len(spawnResults) :
                               spawnResults[k].status = "fulfilled"
          IN  /\ state'.retry_count = IF spawned THEN 0 ELSE state.retry_count + 1
              /\ (state'.status = "ERROR" /\ state'.error = "retry budget exhausted")
                    <=> state'.retry_count > MAX_RETRY_ATTEMPTS
              /\ state'.status \in {state.status, "ERROR"}]_vars

\* a wake whose spawn requests all failed has exhausted the budget
C11_Witness ==
    /\ state # NoState
    /\ last.op = "record"
    /\ state.status = "ERROR"
    /\ state.error = "retry budget exhausted"
    /\ state.retry_count = MAX_RETRY_ATTEMPTS + 1

(***************************************************************************)
(* Liveness.  A scheduled alarm eventually fires, every spawn request of a *)
(* wake eventually settles (fulfilled or rejected), and the wake then      *)
(* records its results.  Nothing is assumed of queue redeliveries,         *)
(* callbacks, status reads, or resets.                                     *)
(***************************************************************************)
SpawnSettles ==
    \/ \E k \in 1..Len(pendingTasks), id \in MachineIds : SpawnFulfilled(k, id)
    \/ \E k \in 1..Len(pendingTasks) : SpawnRejected(k)

FairSpec ==
    /\ Spec
    /\ WF_vars(AlarmFire)
    /\ WF_vars(SpawnSettles)
    /\ WF_vars(ExecRecord)

\* C12: progress or termination.  When scheduled alarms eventually fire, every
\* started batch eventually reaches DONE or ERROR, also when every spawn
\* request fails forever or a spawned worker never sends its callback.
C12_EventuallyTerminal ==
    (state # NoState) ~> (state # NoState /\ state.status \in Terminal)

\* the budget ran out on a batch with a spawned task whose worker never
\* called back
C12_Witness ==
    /\ state # NoState
    /\ state.status = "ERROR"
    /\ state.error = "retry budget exhausted"
    /\ callbacks = 0
    /\ \E i \in TaskIndexes(state) :
          state.current_phase_tasks[i].status = "processing"

\* C13: start_batch is idempotent per batch id.  A queue message delivered
\* for a batch id that already has a BatchState changes nothing: tasks,
\* counters, status, started_at and queue_message are as before, no task is
\* discovered again, and the wake scheduling is left alone.
C13_StartBatchIdempotent ==
    [][(state # NoState /\ last'.op \in {"start", "start_noop"}) =>
          /\ state' = state
          /\ alarm' = alarm
          /\ <<pc, pendingTasks, spawnResults>>' = <<pc, pendingTasks, spawnResults>>]_vars

\* a message was redelivered to a batch that had already counted a result
\* and still had a task with its worker
C13_Witness ==
    /\ state # NoState
    /\ last.op = "start_noop"
    /\ state.tasks_completed > 0
    /\ \E i \in TaskIndexes(state) :
          state.current_phase_tasks[i].status = "processing"

\* C14: an admin reset of a running batch sets status ERROR and error "reset
\* by admin", cancels the pending alarm and keeps current_phase_tasks as it
\* was; a callback that arrives afterwards is answered 200 and changes
\* neither the status, nor a task, nor a counter.
C14_AdminReset ==
    [][/\ (state # NoState /\ state.status \notin Terminal /\ last'.op = "reset") =>
            /\ state'.status = "ERROR"
            /\ state'.error = "reset by admin"
            /\ alarm' = FALSE
            /\ state'.current_phase_tasks = state.current_phase_tasks
            /\ state'.tasks_completed = state.tasks_completed
            /\ state'.tasks_failed = state.tasks_failed
       /\ (state # NoState /\ state.status = "ERROR" /\ callbacks' # callbacks) =>
            /\ state' = state
            /\ alarm' = alarm
            /\ last'.http = 200]_vars

\* the worker of a processing task called back after the reset
C14_Witness ==
    /\ state # NoState
    /\ state.status = "ERROR"
    /\ state.error = "reset by admin"
    /\ last.op = "callback_dropped"
    /\ last.http = 200
    /\ \E i \in TaskIndexes(state) :
          /\ state.current_phase_tasks[i].status = "processing"
          /\ HasWorker(state, i)

(***************************************************************************)
(* fetch(), callback route, for requests that do not reach the durable     *)
(* object: a path without batch id or task id is answered 400; a body that *)
(* is not JSON makes request.json() throw, and the catch of fetch()        *)
(* answers 500.                                                            *)
(***************************************************************************)
CallbackPaths == {"ok", "no_batch_id", "no_task_id"}
CallbackBodies == {"json", "not_json"}

callbackAnswer(path, body) ==
    IF path # "ok" THEN 400
    ELSE IF body = "not_json" THEN 500
    ELSE 200

CallbackMalformed(path, body) ==
    /\ UNCHANGED delivery
    /\ ~(path = "ok" /\ body = "json")
    /\ last' = Answered("callback_malformed", callbackAnswer(path, body))
    /\ UNCHANGED <<state, alarm, pc, pendingTasks, spawnResults, callbacks>>

NextHttp ==
    \/ Next
    \/ \E path \in CallbackPaths, body \in CallbackBodies :
          CallbackMalformed(path, body)

SpecHttp == Init /\ [][NextHttp]_vars

\* C15: a callback request with a malformed path or a body that is not valid
\* JSON is answered with a 4xx status and does not reach handleCallback, so
\* the batch state is not changed.
C15_MalformedCallback4xx ==
    [][last'.op = "callback_malformed" =>
          /\ last'.http \in 400..499
          /\ state' = state]_vars

(***************************************************************************)
(* Discovery.  The first message of a batch is drawn from every message of *)
(* up to MaxFiles files in one directory, or one file in each of two       *)
(* directories, over file names that end in the extensions in either case, *)
(* contain them elsewhere, or lack the dot.                                *)
(***************************************************************************)
MaxFiles == 2

DiscoverNames ==
    { NameATiff, NameBJpg, NameCTIF, NameDPdf, NameDTif,
      <<"A", "a", ".", "t", "i", "f">>,
      <<"B", "B", ".", "t", "i", "f">>,
      <<"a", ".", "t", "I", "f", "F">>,
      <<".", "t", "i", "f">>,
      <<"t", "i", "f">>,
      <<"a", "t", "i", "f", "f">>,
      <<"a", ".", "t", "i", "f", "f", "f">>,
      <<"a", ".", "t", "i", "f", "f", ".", "j", "p", "g">> }

DiscoverFiles == {File(name) : name \in DiscoverNames}

DiscoverMessages ==
    {[batch_id |-> BatchId, directories |-> <<d>>] :
        d \in UNION {[1..k -> DiscoverFiles] : k \in 0..MaxFiles}}
    \cup
    {[batch_id |-> BatchId, directories |-> << <<f>>, <<g>> >>] :
        f \in DiscoverFiles, g \in DiscoverFiles}

\* the first delivery for the batch id
NextDiscover == \E m \in DiscoverMessages : state = NoState /\ StartBatch(m)

SpecDiscover == Init /\ [][NextDiscover]_vars

\* the spellings of the two extensions
TiffSuffixes ==
    {<<".", t, i, f>> : t \in {"t", "T"}, i \in {"i", "I"}, f \in {"f", "F"}}
    \cup
    {<<".", t, i, f, g>> :
        t \in {"t", "T"}, i \in {"i", "I"}, f \in {"f", "F"}, g \in {"f", "F"}}

Qualifies(file) ==
    \E suffix \in TiffSuffixes :
        /\ Len(file.file_name) >= Len(suffix)
        /\ SubSeq(file.file_name, Len(file.file_name) - Len(suffix) + 1,
                  Len(file.file_name)) = suffix

\* C17: discovery emits exactly one task for each file of the message whose
\* name ends, in either case, in .tif or .tiff, in the order of the message,
\* and none for another file; every task is pending with retry_count 0, and
\* tasks_total is their number.
C17_DiscoverQualifying ==
    state # NoState =>
        LET files == FlattenFiles(state.queue_message.directories)
            qualifying == SelectSeq(files, Qualifies)
            tasks == discover(state.queue_message)
        IN  /\ Len(tasks) = Len(qualifying)
            /\ state.tasks_total = Len(qualifying)
            /\ \A k \in 1..Len(tasks) :
                  /\ tasks[k].input_r2_key = qualifying[k].r2_key
                  /\ tasks[k].input_file_name = qualifying[k].file_name
                  /\ tasks[k].task_id = generateTaskId(BatchId, qualifying[k].r2_key)
                  /\ tasks[k].status = "pending"
                  /\ tasks[k].retry_count = 0

\* a message of c.TIF and a file that does not qualify gave one task
C17_Witness ==
    /\ state # NoState
    /\ last.op = "start"
    /\ state.tasks_total = 1
    /\ Len(state.current_phase_tasks) = 1
    /\ state.current_phase_tasks[1].input_file_name = NameCTIF
    /\ Len(FlattenFiles(state.queue_message.directories)) = 2

\* the input keys of the files are pairwise distinct
KeysDistinct(files) ==
    \A j, k \in 1..Len(files) : files[j].r2_key = files[k].r2_key => j = k

\* C16: within one batch, two qualifying files with distinct input keys get
\* distinct task ids, so current_phase_tasks holds one entry for each
\* discovered task and its size is the number of qualifying files.
C16_DistinctTaskIds ==
    state # NoState =>
        LET files == FlattenFiles(state.queue_message.directories)
            qualifying == SelectSeq(files, Qualifies)
        IN  KeysDistinct(qualifying) =>
                /\ \A j, k \in 1..Len(qualifying) :
                      generateTaskId(BatchId, qualifying[j].r2_key)
                          = generateTaskId(BatchId, qualifying[k].r2_key) => j = k
                /\ Len(state.current_phase_tasks) = Len(qualifying)
                /\ Len(state.current_phase_tasks) = state.tasks_total

\* C18: counter monotonicity.  No wake, callback, redelivered start, status
\* read or admin reset makes tasks_completed or tasks_failed smaller.
C18_CountersMonotone ==
    [][state # NoState =>
          /\ state'.tasks_completed >= state.tasks_completed
          /\ state'.tasks_failed >= state.tasks_failed]_vars

\* a batch that had counted a completed and a failed task was reset
C18_Witness ==
    /\ state # NoState
    /\ last.op = "reset"
    /\ state.tasks_completed > 0
    /\ state.tasks_failed > 0

\* the number of tasks of s with the given status
CountStatus(s, status) ==
    Cardinality({i \in TaskIndexes(s) : s.current_phase_tasks[i].status = status})

\* C20: in every reachable state tasks_completed is the number of tasks whose
\* status is completed and tasks_failed is the number of tasks whose status is
\* failed.
C20_CountersMatchStatuses ==
    state # NoState =>
        /\ state.tasks_completed = CountStatus(state, "completed")
        /\ state.tasks_failed = CountStatus(state, "failed")

MaxExecTasks == 3

TaskStatuses == {"pending", "processing", "completed", "failed"}

ExecNames ==
    << NameATiff, NameCTIF, NameDTif,
       <<"A", "a", ".", "t", "i", "f">>,
       <<"a", ".", "t", "I", "f", "F">> >>

\* a message of the first n qualifying files
ExecMessage(n) ==
    [batch_id |-> BatchId,
     directories |-> << [k \in 1..n |-> File(ExecNames[k])] >>]

\* the task t as it is once it has the given status
TaskIn(t, status) ==
    CASE status = "pending" -> t
      [] status = "processing" ->
            [t EXCEPT !.status = "processing", !.started_at = "set",
                      !.fly_machine_id = "m1"]
      [] status = "completed" ->
            [t EXCEPT !.status = "completed", !.started_at = "set",
                      !.fly_machine_id = "m1", !.completed_at = "set",
                      !.output_r2_key = "out"]
      [] status = "failed" ->
            [t EXCEPT !.status = "failed", !.started_at = "set",
                      !.fly_machine_id = "m1", !.error = "err"]

\* the running batch of n tasks with statuses f and batch retry_count rc
ExecState(n, f, rc) ==
    LET queueMessage == ExecMessage(n)
        tasks == discover(queueMessage)
    IN  [ batch_id            |-> BatchId,
          status              |-> "TIFF_CONVERSION",
          queue_message       |-> queueMessage,
          current_phase       |-> "TIFF_CONVERSION",
          current_phase_tasks |-> [i \in 1..n |-> TaskIn(tasks[i], f[i])],
          tasks_total         |-> n,
          tasks_completed     |-> Cardinality({i \in 1..n : f[i] = "completed"}),
          tasks_failed        |-> Cardinality({i \in 1..n : f[i] = "failed"}),
          started_at          |-> "set",
          completed_at        |-> "none",
          error               |-> "none",
          retry_count         |-> rc ]

InitExec ==
    /\ \E n \in 0..MaxExecTasks :
          \E f \in [1..n -> TaskStatuses], rc \in {0, MAX_RETRY_ATTEMPTS} :
              state = ExecState(n, f, rc)
    /\ alarm = TRUE
    /\ pc = "idle"
    /\ pendingTasks = <<>>
    /\ spawnResults = <<>>
    /\ callbacks = 0
    /\ delivery = NoDelivery
    /\ last = Op("init")

NextExec ==
    \/ AlarmFire
    \/ \E k \in 1..Len(pendingTasks), id \in MachineIds : SpawnFulfilled(k, id)
    \/ \E k \in 1..Len(pendingTasks) : SpawnRejected(k)
    \/ ExecRecord

SpecExec == InitExec /\ [][NextExec]_vars

\* C21: executeBatch reports more_work = false if and only if every task of
\* current_phase_tasks is completed or failed, the empty task set included,
\* and then issues no spawn request; it reports true whenever a task is
\* pending or processing, and a task is pending or processing when it does.
C21_MoreWorkIffNotAllTerminal ==
    [][/\ last'.op \in {"alarm_done", "alarm_wait", "alarm_spawn"} =>
            LET allTerminal == \A i \in TaskIndexes(state) :
                                   TaskTerminal(state.current_phase_tasks[i])
            IN  /\ last'.op = "alarm_done" <=> allTerminal
                /\ last'.op = "alarm_done" =>
                      /\ pc' = "idle"
                      /\ pendingTasks' = <<>>
                      /\ spawnResults' = <<>>
                      /\ state'.current_phase_tasks = state.current_phase_tasks
       /\ last'.op \in {"alarm_wait", "record"} =>
            \E i \in TaskIndexes(state') :
                state'.current_phase_tasks[i].status \in {"pending", "processing"}]_vars

\* the wake found a completed and a failed task and nothing else, and
\* reported that no work remains
C21_Witness ==
    /\ last.op = "alarm_done"
    /\ state.status = "DONE"
    /\ pc = "idle"
    /\ \E i \in TaskIndexes(state) : state.current_phase_tasks[i].status = "completed"
    /\ \E i \in TaskIndexes(state) : state.current_phase_tasks[i].status = "failed"

\* the positions executeBatch selected in the wake under way
Selected == {pendingTasks[k] : k \in 1..Len(pendingTasks)}

\* s with the fields the alarm loop writes after executeBatch blanked
SansLoopFields(s) ==
    [s EXCEPT !.retry_count = 0, !.status = "", !.error = "", !.completed_at = ""]

\* C24: executeBatch acts only on tasks that are pending when the wake
\* starts.  Every task it issues a spawn request for is pending then; a
\* task it did not select keeps its status and fields; tasks_total,
\* tasks_completed and tasks_failed never change; and the batch status is
\* not changed by executeBatch (the alarm loop that called it may then write
\* status, error, completed_at and retry_count).
C24_ExecuteBatchFrame ==
    [][/\ last'.op = "alarm_spawn" =>
            /\ state' = state
            /\ \A k \in 1..Len(pendingTasks') :
                  state.current_phase_tasks[pendingTasks'[k]].status = "pending"
       /\ last'.op \in {"alarm_wait", "alarm_done"} =>
            SansLoopFields(state') = SansLoopFields(state)
       /\ last'.op = "spawn_rejected" => state' = state
       /\ last'.op \in {"spawn_fulfilled", "record"} =>
            /\ \A i \in TaskIndexes(state) \ Selected :
                  state'.current_phase_tasks[i] = state.current_phase_tasks[i]
            /\ state'.tasks_total = state.tasks_total
            /\ state'.tasks_completed = state.tasks_completed
            /\ state'.tasks_failed = state.tasks_failed
       /\ last'.op = "spawn_fulfilled" => state'.status = state.status
       /\ last'.op = "record" =>
            LET recorded == recordSpawnResults(state, pendingTasks, spawnResults)
            IN  /\ recorded.status = state.status
                /\ SansLoopFields(state') = SansLoopFields(recorded)]_vars

\* the results of a wake were recorded beside a completed task and a
\* processing task that the wake had not selected
C24_Witness ==
    /\ last.op = "record"
    /\ \E k \in 1..Len(spawnResults) : spawnResults[k].status = "fulfilled"
    /\ \E i \in TaskIndexes(state) \ Selected :
          state.current_phase_tasks[i].status = "completed"
    /\ \E i \in TaskIndexes(state) \ Selected :
          state.current_phase_tasks[i].status = "processing"

\* C23: a batch whose message holds no qualifying file has tasks_total = 0
\* and is DONE; no wake of it selects a task or issues a spawn request, and
\* its processing never makes it ERROR (only an admin reset does).
C23_EmptyBatchDone ==
    (state # NoState
        /\ \A k \in 1..Len(FlattenFiles(state.queue_message.directories)) :
              ~Qualifies(FlattenFiles(state.queue_message.directories)[k])) =>
        /\ state.tasks_total = 0
        /\ state.current_phase_tasks = <<>>
        /\ pc = "idle"
        /\ pendingTasks = <<>>
        /\ spawnResults = <<>>
        /\ last.op \notin {"alarm_spawn", "spawn_fulfilled", "spawn_rejected", "record"}
        /\ \/ state.status = "DONE" /\ state.completed_at = "set" /\ state.error = "none"
           \/ state.status = "ERROR" /\ state.error = "reset by admin"

\* the wake scheduled at the start of an empty batch fired on the DONE batch
C23_Witness ==
    /\ state # NoState
    /\ state.tasks_total = 0
    /\ state.status = "DONE"
    /\ last.op = "alarm_exit"
    /\ alarm = FALSE

(***************************************************************************)
(* queue(): the consumer works through a delivered MessageBatch, one       *)
(* message per step.  stub.startBatch either returns, and the message is   *)
(* acknowledged, or throws before the durable object has changed, and the  *)
(* catch asks for a retry; the loop then goes on to the next message.      *)
(***************************************************************************)
MaxDelivery == 3

StartOutcomes == {"returned", "threw"}

\* a message of the delivery, no call made for it yet
Undelivered(body) ==
    [body |-> body, target |-> "none", calls |-> 0, acks |-> 0, retries |-> 0,
     outcome |-> "none"]

\* queueMessage.batch_id || 'unknown'
routeOf(body) == IF body.batch_id = "" THEN "unknown" ELSE body.batch_id

\* idFromName(batchId), get, and the call of startBatch
callStartBatch(message) ==
    [message EXCEPT !.target = routeOf(message.body), !.calls = @ + 1]

\* message.ack() after the call returned, message.retry() in the catch
settleMessage(message, outcome) ==
    IF outcome = "returned"
    THEN [message EXCEPT !.acks = @ + 1, !.outcome = outcome]
    ELSE [message EXCEPT !.retries = @ + 1, !.outcome = outcome]

InitQueue ==
    /\ \E n \in 1..MaxDelivery :
          \E bodies \in [1..n -> Messages] :
              delivery = [messages |-> [i \in 1..n |-> Undelivered(bodies[i])],
                          next |-> 1]
    /\ state = NoState
    /\ alarm = FALSE
    /\ pc = "idle"
    /\ pendingTasks = <<>>
    /\ spawnResults = <<>>
    /\ callbacks = 0
    /\ last = Op("init")

\* one iteration of the loop over batch.messages
QueueMessage(outcome) ==
    /\ delivery.next <= Len(delivery.messages)
    /\ LET message == delivery.messages[delivery.next]
       IN  /\ delivery' =
                 [delivery EXCEPT
                     !.messages[delivery.next] =
                         settleMessage(callStartBatch(message), outcome),
                     !.next = @ + 1]
           /\ IF outcome = "returned" /\ routeOf(message.body) = BatchId
              THEN /\ state' = startBatch(state, message.body)
                   /\ alarm' = IF state = NoState THEN TRUE ELSE alarm
                   /\ last' = Op(IF state = NoState THEN "start" ELSE "start_noop")
              ELSE /\ UNCHANGED <<state, alarm>>
                   /\ last' = Op("start_threw")
    /\ UNCHANGED <<pc, pendingTasks, spawnResults, callbacks>>

NextQueue == \E outcome \in StartOutcomes : QueueMessage(outcome)

SpecQueue == InitQueue /\ [][NextQueue]_vars

\* in the delivery d every message the loop has passed was called once, on
\* the durable object of its batch id, and then either acknowledged (the
\* call returned) or sent back for a retry (the call threw), and no message
\* the loop has not reached was touched
MessagesSettled(d) ==
    \A i \in 1..Len(d.messages) :
        LET message == d.messages[i]
        IN  IF i < d.next
            THEN /\ message.calls = 1
                 /\ message.target = message.body.batch_id
                 /\ message.acks + message.retries = 1
                 /\ message.acks = 1 <=> message.outcome = "returned"
                 /\ message.retries = 1 <=> message.outcome = "threw"
            ELSE message = Undelivered(message.body)

\* C22: for every message of a delivered queue batch the consumer calls
\* startBatch once, on the durable object of the message's batch id, and
\* then does exactly one of ack (the call returned) and retry (the call
\* threw); after either the loop stands at the next message, so a failure
\* does not keep later messages from being processed.
C22_AckXorRetry ==
    [][/\ MessagesSettled(delivery')
       /\ delivery'.next = delivery.next + 1
       /\ Len(delivery'.messages) = Len(delivery.messages)]_vars

\* the first call threw and its message went back for a retry, the second
\* message was acknowledged after it
C22_Witness ==
    /\ Len(delivery.messages) >= 2
    /\ delivery.next > 2
    /\ delivery.messages[1].retries = 1
    /\ delivery.messages[1].acks = 0
    /\ delivery.messages[2].acks = 1
    /\ delivery.messages[2].retries = 0
    /\ state # NoState
====
